---- MODULE Spec2Model ----
(***************************************************************************)
(* A model of the ray tracer: the vector and interval arithmetic, the      *)
(* sphere intersection, the scene list, the colour writer and the camera's *)
(* render loop.                                                            *)
(*                                                                         *)
(* A double is modelled as a rational n/d in lowest terms, or one of the   *)
(* IEEE specials +inf, -inf and NaN, or "huge": a finite quotient whose    *)
(* magnitude is 2^31 or more.  The result of an operation is exact while   *)
(* its numerator or its denominator is at most Precision, and is otherwise *)
(* rounded to a multiple of 1/Precision; std::sqrt is exact on perfect     *)
(* squares and otherwise rounded down to a multiple of 1/Precision.        *)
(* Signed zeros are not distinguished (1/0 is +inf).                       *)
(***************************************************************************)
EXTENDS Integers, Sequences, FiniteSets, TLC

VARIABLES
    \* Camera (Camera.h:15-17, 47-52)
    aspect_ratio, image_width, samples_per_pixel,
    image_height, pixel_samples_scale, center, pixel00_loc,
    pixel_delta_u, pixel_delta_v,
    \* position of Camera::render (Camera.h:28-44)
    pc, row, col, sample, pixel_color,
    \* the colours of the rays shaded so far for the pixel in progress
    shaded,
    \* std::cout of the render call in progress, and the last write_color call
    out, written,
    \* whether the render call in progress found derived fields that an earlier
    \* call had left for another configuration
    leftover,
    \* HittableList::objects of the scene (HittableList.h:19)
    objects,
    \* the caller's HitRecord, the last query made on the scene and its result
    rec, query, result

camvars == <<aspect_ratio, image_width, samples_per_pixel, image_height,
             pixel_samples_scale, center, pixel00_loc, pixel_delta_u,
             pixel_delta_v, pc, row, col, sample, pixel_color, out, written,
             leftover, shaded>>
hitvars == <<objects, rec, query, result>>
vars == <<camvars, hitvars>>

-----------------------------------------------------------------------------
(* Bounds of the model *)

\* the denominator to which an inexact result is rounded
Precision == 1000
\* most spheres in the scene list
MaxObjects == 2
\* widest image configured
MaxWidth == 2
\* the render loop is followed for images of at most this many rows
MaxRows == 2
\* largest samples_per_pixel configured
MaxSamples == 2

\* INT_MAX and INT_MIN of a 32-bit int
IntMax == (2^30 - 1) * 2 + 1
IntMin == -IntMax - 1

-----------------------------------------------------------------------------
(* double *)

RECURSIVE GCD(_, _)
GCD(a, b) == IF b = 0 THEN a ELSE GCD(b, a % b)

Abs(n) == IF n < 0 THEN -n ELSE n

\* the rational n/d (d # 0) in lowest terms with a positive denominator
Rat(n, d) ==
    LET g == GCD(Abs(n), Abs(d))
        s == IF d < 0 THEN -1 ELSE 1
    IN  [k |-> "fin", n |-> s * (n \div g), d |-> s * (d \div g)]

\* the rounding of the result n/d (d > 0) of an operation
Round(n, d) ==
    IF d <= Precision \/ Abs(n) <= Precision THEN Rat(n, d)
    ELSE LET a == Abs(n)
             whole == a \div d
             frac == IF d \div Precision > Precision
                     THEN (a % d) \div (d \div Precision)
                     ELSE ((a % d) * Precision) \div d
         IN  Rat((IF n < 0 THEN -1 ELSE 1) * (whole * Precision + frac), Precision)

Num(n) == [k |-> "fin", n |-> n, d |-> 1]
NaN == [k |-> "nan", n |-> 0, d |-> 1]
Inf(s) == [k |-> "inf", n |-> s, d |-> 1]
Huge(s) == [k |-> "huge", n |-> s, d |-> 1]
infinity == Inf(1)

Zero == Num(0)
One == Num(1)
Half == Rat(1, 2)

IsNaN(x) == x.k = "nan"
IsFin(x) == x.k = "fin"
Sgn(x) == IF x.n > 0 THEN 1 ELSE IF x.n < 0 THEN -1 ELSE 0

Neg(x) == IF IsNaN(x) THEN NaN ELSE [x EXCEPT !.n = -x.n]

\* x < y; every comparison with NaN is false
Lt(x, y) ==
    CASE IsNaN(x) \/ IsNaN(y) -> FALSE
      [] IsFin(x) /\ IsFin(y) ->
            LET g == GCD(x.d, y.d)
            IN  x.n * (y.d \div g) < y.n * (x.d \div g)
      [] IsFin(x) -> y.n > 0
      [] IsFin(y) -> x.n < 0
      [] x.k = y.k -> x.n < y.n
      [] x.k = "huge" -> y.n > 0
      [] OTHER -> x.n < 0

Le(x, y) == ~IsNaN(x) /\ ~IsNaN(y) /\ (x = y \/ Lt(x, y))

Add(x, y) ==
    CASE IsNaN(x) \/ IsNaN(y) -> NaN
      [] IsFin(x) /\ IsFin(y) ->
            LET g == GCD(x.d, y.d)
            IN  Round(x.n * (y.d \div g) + y.n * (x.d \div g), (x.d \div g) * y.d)
      [] IsFin(x) -> y
      [] IsFin(y) -> x
      [] x.n = y.n -> IF x.k = "inf" THEN x ELSE y
      [] x.k = "inf" /\ y.k = "huge" -> x
      [] x.k = "huge" /\ y.k = "inf" -> y
      [] OTHER -> NaN

Sub(x, y) == Add(x, Neg(y))

Mul(x, y) ==
    CASE IsNaN(x) \/ IsNaN(y) -> NaN
      [] IsFin(x) /\ IsFin(y) ->
            LET g1 == GCD(Abs(x.n), y.d)
                g2 == GCD(Abs(y.n), x.d)
            IN  Round((x.n \div g1) * (y.n \div g2), (x.d \div g2) * (y.d \div g1))
      [] Sgn(x) = 0 \/ Sgn(y) = 0 -> IF x.k = "inf" \/ y.k = "inf" THEN NaN ELSE Zero
      [] x.k = "inf" \/ y.k = "inf" -> Inf(Sgn(x) * Sgn(y))
      [] OTHER -> Huge(Sgn(x) * Sgn(y))

\* x / y; a quotient of rationals too large for an int is "huge"
Div(x, y) ==
    CASE IsNaN(x) \/ IsNaN(y) -> NaN
      [] IsFin(x) /\ IsFin(y) ->
            IF y.n = 0
            THEN IF x.n = 0 THEN NaN ELSE Inf(Sgn(x))
            ELSE LET g1 == GCD(Abs(x.n), Abs(y.n))
                     g2 == GCD(y.d, x.d)
                     a == Abs(x.n) \div g1
                     b == y.d \div g2
                 IN  IF a # 0 /\ b > IntMax \div a
                     THEN Huge(Sgn(x) * Sgn(y))
                     ELSE Round(Sgn(x) * Sgn(y) * a * b,
                                (x.d \div g2) * (Abs(y.n) \div g1))
      [] IsFin(x) -> Zero
      [] IsFin(y) -> [x EXCEPT !.n = Sgn(x) * (IF Sgn(y) < 0 THEN -1 ELSE 1)]
      [] x.k = "huge" /\ y.k = "inf" -> Zero
      [] x.k = "inf" /\ y.k = "huge" -> Inf(Sgn(x) * Sgn(y))
      [] OTHER -> NaN

\* the integer part of a rational (rounding toward zero)
Trunc(x) == IF x.n >= 0 THEN x.n \div x.d ELSE -((-x.n) \div x.d)

RECURSIVE ISqrtIn(_, _, _)
ISqrtIn(n, lo, hi) ==
    IF hi - lo <= 1 THEN lo
    ELSE LET mid == (lo + hi) \div 2
         IN  IF mid <= n \div mid THEN ISqrtIn(n, mid, hi) ELSE ISqrtIn(n, lo, mid)

\* the largest r with r * r <= n
ISqrt(n) == IF n < 2 THEN n ELSE ISqrtIn(n, 1, n)

\* std::sqrt
Sqrt(x) ==
    CASE IsNaN(x) -> NaN
      [] x.n < 0 -> NaN
      [] ~IsFin(x) -> x
      [] OTHER ->
            LET rn == ISqrt(x.n)
                rd == ISqrt(x.d)
            IN  IF rn * rn = x.n /\ rd * rd = x.d
                THEN Rat(rn, rd)
                ELSE Rat(ISqrt((x.n * Precision * Precision) \div x.d), Precision)

\* std::fmax: a NaN argument is ignored
fmax(x, y) ==
    CASE IsNaN(x) -> y
      [] IsNaN(y) -> x
      [] OTHER -> IF Lt(x, y) THEN y ELSE x

\* The outcomes of converting a double to int.  A value whose integer part
\* an int can hold converts to it; for any other value the conversion is
\* undefined: cvttsd2si yields INT_MIN, a saturating conversion yields the
\* nearest int (0 for NaN).
IntCast(x) ==
    CASE IsFin(x) -> {Trunc(x)}
      [] IsNaN(x) -> {IntMin, 0}
      [] OTHER -> {IntMin, IF x.n > 0 THEN IntMax ELSE IntMin}

-----------------------------------------------------------------------------
(* Vec3.h *)

Vec3(e0, e1, e2) == <<e0, e1, e2>>
IVec(a, b, c) == Vec3(Num(a), Num(b), Num(c))
Vec3_zero == IVec(0, 0, 0)

Vec3_neg(v) == Vec3(Neg(v[1]), Neg(v[2]), Neg(v[3]))
Vec3_add(u, v) == Vec3(Add(u[1], v[1]), Add(u[2], v[2]), Add(u[3], v[3]))
Vec3_sub(u, v) == Vec3(Sub(u[1], v[1]), Sub(u[2], v[2]), Sub(u[3], v[3]))
Vec3_scale(t, v) == Vec3(Mul(t, v[1]), Mul(t, v[2]), Mul(t, v[3]))
Vec3_div(v, t) == Vec3_scale(Div(One, t), v)
dot(u, v) == Add(Add(Mul(u[1], v[1]), Mul(u[2], v[2])), Mul(u[3], v[3]))
length_squared(v) == Add(Add(Mul(v[1], v[1]), Mul(v[2], v[2])), Mul(v[3], v[3]))
length(v) == Sqrt(length_squared(v))
unit_vector(v) == Vec3_div(v, length(v))

-----------------------------------------------------------------------------
(* Interval.h *)

Interval(min, max) == [min |-> min, max |-> max]
Interval_universe == Interval(Inf(-1), Inf(1))
contains(i, x) == Le(i.min, x) /\ Le(x, i.max)
\* surrounds with the bounds let in
surrounds_inclusive(i, x) == contains(i, x)
surrounds(i, x) == Lt(i.min, x) /\ Lt(x, i.max)
clamp(i, x) ==
    IF Lt(x, i.min) THEN i.min
    ELSE IF Lt(i.max, x) THEN i.max
    ELSE x

-----------------------------------------------------------------------------
(* Ray.h *)

Ray(origin, direction) == [origin |-> origin, direction |-> direction]
Ray_at(r, t) == Vec3_add(r.origin, Vec3_scale(t, r.direction))

-----------------------------------------------------------------------------
(* Hittable.h *)

HitRecord(p, normal, t, front_face) ==
    [p |-> p, normal |-> normal, t |-> t, front_face |-> front_face]

set_face_normal(r, ray, outward_normal) ==
    LET ff == Lt(dot(ray.direction, outward_normal), Zero)
    IN  [r EXCEPT !.front_face = ff,
                  !.normal = IF ff THEN outward_normal ELSE Vec3_neg(outward_normal)]

-----------------------------------------------------------------------------
(* Sphere.h *)

\* Sphere::hit with rec.t assigned as soon as a root is computed
Sphere_hit_early_write(s, ray, interval, r) ==
    LET oc == Vec3_sub(s.center, ray.origin)
        a == length_squared(ray.direction)
        h == dot(ray.direction, oc)
        c == Sub(length_squared(oc), Mul(s.radius, s.radius))
        discriminant == Sub(Mul(h, h), Mul(a, c))
    IN  IF Lt(discriminant, Zero) THEN [hit |-> FALSE, rec |-> r]
        ELSE
        LET sqrtd == Sqrt(discriminant)
            root1 == Div(Sub(h, sqrtd), a)
            root == IF ~surrounds(interval, root1)
                    THEN Div(Add(h, sqrtd), a)
                    ELSE root1
        IN  IF ~surrounds(interval, root)
            THEN [hit |-> FALSE, rec |-> [r EXCEPT !.t = root]]
            ELSE
            LET p == Ray_at(ray, root)
                outward_normal == Vec3_div(Vec3_sub(p, s.center), s.radius)
            IN  [hit |-> TRUE,
                 rec |-> set_face_normal([r EXCEPT !.t = root, !.p = p],
                                         ray, outward_normal)]

\* Sphere::hit with the two roots tried in the other order
Sphere_hit_far_first(s, ray, interval, r) ==
    LET oc == Vec3_sub(s.center, ray.origin)
        a == length_squared(ray.direction)
        h == dot(ray.direction, oc)
        c == Sub(length_squared(oc), Mul(s.radius, s.radius))
        discriminant == Sub(Mul(h, h), Mul(a, c))
        sqrtd == Sqrt(discriminant)
        root2 == Div(Add(h, sqrtd), a)
        root == IF ~surrounds(interval, root2) THEN Div(Sub(h, sqrtd), a) ELSE root2
        p == Ray_at(ray, root)
    IN  IF Lt(discriminant, Zero) \/ ~surrounds(interval, root)
        THEN [hit |-> FALSE, rec |-> r]
        ELSE [hit |-> TRUE,
              rec |-> set_face_normal([r EXCEPT !.t = root, !.p = p], ray,
                                      Vec3_div(Vec3_sub(p, s.center), s.radius))]

Sphere(c, radius) == [center |-> c, radius |-> fmax(Zero, radius)]

\* Sphere::hit: [hit |-> the value returned, rec |-> the caller's record after]
Sphere_hit(s, ray, interval, r) ==
    LET oc == Vec3_sub(s.center, ray.origin)
        a == length_squared(ray.direction)
        h == dot(ray.direction, oc)
        c == Sub(length_squared(oc), Mul(s.radius, s.radius))
        discriminant == Sub(Mul(h, h), Mul(a, c))
    IN  IF Lt(discriminant, Zero) THEN [hit |-> FALSE, rec |-> r]
        ELSE
        LET sqrtd == Sqrt(discriminant)
            root1 == Div(Sub(h, sqrtd), a)
            root == IF ~surrounds(interval, root1)
                    THEN Div(Add(h, sqrtd), a)
                    ELSE root1
        IN  IF ~surrounds(interval, root)
            THEN [hit |-> FALSE, rec |-> r]
            ELSE
            LET p == Ray_at(ray, root)
                outward_normal == Vec3_div(Vec3_sub(p, s.center), s.radius)
            IN  [hit |-> TRUE,
                 rec |-> set_face_normal([r EXCEPT !.t = root, !.p = p],
                                         ray, outward_normal)]

-----------------------------------------------------------------------------
(* HittableList.h *)

\* HittableList::hit: the body returns false and leaves the record alone
HittableList_hit(objs, ray, interval, r) == [hit |-> FALSE, rec |-> r]

-----------------------------------------------------------------------------
(* Camera.h: shading *)

\* Camera::ray_color on the scene list; r0 is its local HitRecord
ray_color(ray, objs, r0) ==
    LET h == HittableList_hit(objs, ray, Interval(Zero, infinity), r0)
    IN  IF h.hit
        THEN Vec3_scale(Half, Vec3_add(h.rec.normal, IVec(1, 1, 1)))
        ELSE
        LET unit_direction == unit_vector(ray.direction)
            a == Mul(Half, Add(unit_direction[2], One))
        IN  Vec3_add(Vec3_scale(Sub(One, a), IVec(1, 1, 1)),
                     Vec3_scale(a, Vec3(Half, Rat(7, 10), One)))

-----------------------------------------------------------------------------
(* Color.h *)

colorInterval == Interval(Zero, Rat(999, 1000))

\* the byte write_color prints for one channel: the outcomes of
\* int(256 * colorInterval.clamp(x))
color_byte(x) == IntCast(Mul(Num(256), clamp(colorInterval, x)))

\* write_color: the triples it can print for a colour
write_color(pixel) ==
    {<<r, g, b>> : r \in color_byte(pixel[1]), g \in color_byte(pixel[2]),
                   b \in color_byte(pixel[3])}

-----------------------------------------------------------------------------
(* Camera.h: geometry *)

\* Camera::initialize: the derived fields, h0 being the outcome of
\* int(image_width / aspect_ratio)
initialize(w, spp, h0) ==
    LET ih == IF h0 < 1 THEN 1 ELSE h0
        c == IVec(0, 0, 0)
        focal_length == One
        viewport_height == Num(2)
        viewport_width == Mul(viewport_height, Div(Num(w), Num(ih)))
        viewport_u == Vec3(viewport_width, Zero, Zero)
        viewport_v == Vec3(Zero, Neg(viewport_height), Zero)
        du == Vec3_div(viewport_u, Num(w))
        dv == Vec3_div(viewport_v, Num(ih))
        viewport_upper_left ==
            Vec3_sub(Vec3_sub(Vec3_sub(c, Vec3(Zero, Zero, focal_length)),
                              Vec3_div(viewport_u, Num(2))),
                     Vec3_div(viewport_v, Num(2)))
    IN  [image_height |-> ih,
         pixel_samples_scale |-> Div(One, Num(spp)),
         center |-> c,
         pixel_delta_u |-> du,
         pixel_delta_v |-> dv,
         pixel00_loc |-> Vec3_add(viewport_upper_left,
                                  Vec3_scale(Half, Vec3_add(du, dv)))]

\* Camera::sample_square, rx and ry being two values of random_double()
sample_square(rx, ry) == Vec3(Sub(rx, Half), Sub(ry, Half), Zero)

\* Camera::get_ray for pixel column i of row j
get_ray(i, j, rx, ry) ==
    LET offset == sample_square(rx, ry)
        pixel_sample ==
            Vec3_add(Vec3_add(pixel00_loc,
                              Vec3_scale(Add(Num(i), offset[1]), pixel_delta_u)),
                     Vec3_scale(Add(Num(j), offset[2]), pixel_delta_v))
    IN  Ray(center, Vec3_sub(pixel_sample, center))

\* the loops of Camera::render with the inner one starting at column 1
LoopAdvance_from_one(r, c, w) == IF c + 1 < w THEN <<r, c + 1>> ELSE <<r + 1, 1>>

\* the loops of Camera::render: the <<row, col>> after pixel <<r, c>>
LoopAdvance(r, c, w) == IF c + 1 < w THEN <<r, c + 1>> ELSE <<r + 1, 0>>

-----------------------------------------------------------------------------
(* The inputs of the scene queries *)

Centers == {IVec(0, 0, -1), IVec(0, 0, -3)}
Radii == {Num(-1), Zero, Half, One}
Spheres == {Sphere(c, r) : c \in Centers, r \in Radii}
Origins == {IVec(0, 0, 0), IVec(0, 0, -1)}
Directions == {IVec(0, 0, -1), IVec(0, 0, -2), IVec(0, 0, 1), IVec(0, 1, -4)}
Rays == {Ray(o, d) : o \in Origins, d \in Directions}
Intervals == {Interval(Zero, infinity), Interval(Num(2), Num(4)), Interval_universe}

\* a HitRecord as declared: p and normal are zero vectors, t and front_face
\* are not initialized
FreshRecords ==
    {HitRecord(Vec3_zero, Vec3_zero, t, ff) : t \in {Num(-7)}, ff \in BOOLEAN}

NoQuery == [kind |-> "none", sphere |-> Sphere(Vec3_zero, Zero),
            ray |-> Ray(Vec3_zero, Vec3_zero), interval |-> Interval(Zero, Zero),
            rec0 |-> HitRecord(Vec3_zero, Vec3_zero, Zero, FALSE)]

NoResult == [hit |-> FALSE, color |-> Vec3_zero]

-----------------------------------------------------------------------------
(* The scene and its queries *)

\* main.cpp:10-12
MainWorld == <<Sphere(IVec(0, 0, -1), Half),
               Sphere(Vec3(Zero, Rat(-201, 2), Num(-1)), Num(100))>>

\* HittableList::add of a newly made sphere
add(c, radius) ==
    /\ query.kind = "none"
    /\ Len(objects) < MaxObjects
    /\ objects' = Append(objects, Sphere(c, radius))
    /\ UNCHANGED <<rec, query, result, camvars>>

\* HittableList::clear
clear ==
    /\ query.kind = "none"
    /\ objects # <<>>
    /\ objects' = <<>>
    /\ UNCHANGED <<rec, query, result, camvars>>

\* a caller declares a HitRecord and calls hit on a member sphere
SphereQuery(i, ray, interval, r0) ==
    /\ query.kind = "none"
    /\ i \in 1..Len(objects)
    /\ LET h == Sphere_hit(objects[i], ray, interval, r0)
       IN  /\ rec' = h.rec
           /\ result' = [hit |-> h.hit, color |-> Vec3_zero]
    /\ query' = [kind |-> "sphere", sphere |-> objects[i], ray |-> ray,
                 interval |-> interval, rec0 |-> r0]
    /\ UNCHANGED <<objects, camvars>>

\* a caller declares a HitRecord and calls hit on the scene list
ListQuery(ray, interval, r0) ==
    /\ query.kind = "none"
    /\ LET h == HittableList_hit(objects, ray, interval, r0)
       IN  /\ rec' = h.rec
           /\ result' = [hit |-> h.hit, color |-> Vec3_zero]
    /\ query' = [NoQuery EXCEPT !.kind = "list", !.ray = ray,
                                !.interval = interval, !.rec0 = r0]
    /\ UNCHANGED <<objects, camvars>>

\* Camera::ray_color of a ray on the scene list
ColorQuery(ray, r0) ==
    /\ query.kind = "none"
    /\ result' = [hit |-> FALSE, color |-> ray_color(ray, objects, r0)]
    /\ query' = [NoQuery EXCEPT !.kind = "color", !.ray = ray,
                                !.interval = Interval(Zero, infinity), !.rec0 = r0]
    /\ UNCHANGED <<objects, rec, camvars>>

\* the caller returns: its HitRecord and the result go out of scope
Return ==
    /\ query.kind # "none"
    /\ query' = NoQuery
    /\ rec' = NoQuery.rec0
    /\ result' = NoResult
    /\ UNCHANGED <<objects, camvars>>

NoWrite == [valid |-> FALSE, color |-> Vec3_zero, bytes |-> <<0, 0, 0>>,
            samples |-> 0, shaded |-> <<>>]

\* a Camera as constructed: the three settings have their defaults, the
\* vectors are zero, image_height and pixel_samples_scale are not initialized
CameraDefaults ==
    /\ aspect_ratio = One
    /\ image_width = 100
    /\ samples_per_pixel = 10
    /\ center = Vec3_zero
    /\ pixel00_loc = Vec3_zero
    /\ pixel_delta_u = Vec3_zero
    /\ pixel_delta_v = Vec3_zero
    /\ pc = "Unconfigured"
    /\ row = 0
    /\ col = 0
    /\ sample = 0
    /\ pixel_color = Vec3_zero
    /\ out = <<>>
    /\ written = NoWrite
    /\ leftover = FALSE
    /\ shaded = <<>>

InitHit ==
    /\ CameraDefaults
    /\ image_height = 0
    /\ pixel_samples_scale = Zero
    /\ objects = <<>>
    /\ rec = NoQuery.rec0
    /\ query = NoQuery
    /\ result = NoResult

NextHit ==
    \/ \E c \in Centers, radius \in Radii : add(c, radius)
    \/ clear
    \/ \E i \in 1..MaxObjects, ray \in Rays, interval \in Intervals, r0 \in FreshRecords :
          SphereQuery(i, ray, interval, r0)
    \/ \E ray \in Rays, interval \in Intervals, r0 \in FreshRecords :
          ListQuery(ray, interval, r0)
    \/ \E ray \in Rays, r0 \in FreshRecords : ColorQuery(ray, r0)
    \/ Return

SpecHit == InitHit /\ [][NextHit]_vars

-----------------------------------------------------------------------------
(* The camera: configuration and Camera::render *)

AspectRatios == {Zero, Rat(1, 2^30), Half, One, Rat(16, 9), Num(2)}
Widths == 1..MaxWidth
SampleCounts == -1..MaxSamples
\* values of random_double(), which lies in [0, 1)
Jitter == {Zero, Half}

Idle == pc \in {"Unconfigured", "Done"}

\* the fields Camera::initialize assigns, as they are now
Derived ==
    [image_height |-> image_height,
     pixel_samples_scale |-> pixel_samples_scale,
     center |-> center,
     pixel_delta_u |-> pixel_delta_u,
     pixel_delta_v |-> pixel_delta_v,
     pixel00_loc |-> pixel00_loc]

\* what Camera::initialize can assign to them for the settings as they are now
Derivable ==
    {initialize(image_width, samples_per_pixel, h0) :
        h0 \in IntCast(Div(Num(image_width), aspect_ratio))}

\* the caller assigns a setting between render calls (main.cpp:16-17)
SetAspectRatio(a) ==
    /\ Idle
    /\ aspect_ratio' = a
    /\ UNCHANGED <<image_width, samples_per_pixel, image_height, pixel_samples_scale,
                   center, pixel00_loc, pixel_delta_u, pixel_delta_v, pc, row, col,
                   sample, pixel_color, out, written, leftover, shaded, hitvars>>

SetImageWidth(w) ==
    /\ Idle
    /\ image_width' = w
    /\ UNCHANGED <<aspect_ratio, samples_per_pixel, image_height, pixel_samples_scale,
                   center, pixel00_loc, pixel_delta_u, pixel_delta_v, pc, row, col,
                   sample, pixel_color, out, written, leftover, shaded, hitvars>>

SetSamplesPerPixel(n) ==
    /\ Idle
    /\ samples_per_pixel' = n
    /\ UNCHANGED <<aspect_ratio, image_width, image_height, pixel_samples_scale,
                   center, pixel00_loc, pixel_delta_u, pixel_delta_v, pc, row, col,
                   sample, pixel_color, out, written, leftover, shaded, hitvars>>

\* Camera::render with initialize() run by the first call only
RenderInitialize_once ==
    /\ Idle
    /\ IF pc = "Unconfigured"
       THEN \E h0 \in IntCast(Div(Num(image_width), aspect_ratio)) :
               LET d == initialize(image_width, samples_per_pixel, h0)
               IN  /\ image_height' = d.image_height
                   /\ pixel_samples_scale' = d.pixel_samples_scale
                   /\ center' = d.center
                   /\ pixel00_loc' = d.pixel00_loc
                   /\ pixel_delta_u' = d.pixel_delta_u
                   /\ pixel_delta_v' = d.pixel_delta_v
       ELSE UNCHANGED <<image_height, pixel_samples_scale, center, pixel00_loc,
                        pixel_delta_u, pixel_delta_v>>
    /\ pc' = "Initialized"
    /\ out' = <<>>
    /\ written' = NoWrite
    /\ leftover' = (pc = "Done" /\ Derived \notin Derivable)
    /\ UNCHANGED <<aspect_ratio, image_width, samples_per_pixel, row, col, sample,
                   pixel_color, shaded, hitvars>>

\* Camera::render is called and runs initialize() (Camera.h:29); out starts
\* to collect what this call writes to std::cout
RenderInitialize ==
    /\ Idle
    /\ \E h0 \in IntCast(Div(Num(image_width), aspect_ratio)) :
          LET d == initialize(image_width, samples_per_pixel, h0)
          IN  /\ image_height' = d.image_height
              /\ pixel_samples_scale' = d.pixel_samples_scale
              /\ center' = d.center
              /\ pixel00_loc' = d.pixel00_loc
              /\ pixel_delta_u' = d.pixel_delta_u
              /\ pixel_delta_v' = d.pixel_delta_v
    /\ pc' = "Initialized"
    /\ out' = <<>>
    /\ written' = NoWrite
    /\ leftover' = (pc = "Done" /\ Derived \notin Derivable)
    /\ UNCHANGED <<aspect_ratio, image_width, samples_per_pixel, row, col, sample,
                   pixel_color, shaded, hitvars>>

HeaderLines(w, h) == <<[kind |-> "P3", a |-> 0, b |-> 0],
                       [kind |-> "size", a |-> w, b |-> h],
                       [kind |-> "maxval", a |-> 255, b |-> 0]>>
PixelLine(r, c) == [kind |-> "pixel", a |-> r, b |-> c]

\* the header is written and the loops are entered (Camera.h:30-35)
WriteHeader ==
    /\ pc = "Initialized"
    /\ out' = out \o HeaderLines(image_width, image_height)
    /\ pc' = "Rendering"
    /\ row' = 0
    /\ col' = 0
    /\ sample' = 0
    /\ pixel_color' = IVec(0, 0, 0)
    /\ shaded' = <<>>
    /\ written' = NoWrite
    /\ UNCHANGED <<aspect_ratio, image_width, samples_per_pixel, image_height,
                   pixel_samples_scale, center, pixel00_loc, pixel_delta_u,
                   pixel_delta_v, leftover, hitvars>>

\* the loops are followed for images within the bounds
Followed ==
    /\ image_width <= MaxWidth
    /\ image_height <= MaxRows
    /\ samples_per_pixel <= MaxSamples

\* one pass of the sample loop (Camera.h:36-39)
Sample(rx, ry, r0) ==
    /\ pc = "Rendering"
    /\ Followed
    /\ row < image_height
    /\ sample < samples_per_pixel
    /\ shaded' = Append(shaded, ray_color(get_ray(col, row, rx, ry), objects, r0))
    /\ pixel_color' = Vec3_add(pixel_color, shaded'[Len(shaded')])
    /\ sample' = sample + 1
    /\ written' = NoWrite
    /\ UNCHANGED <<aspect_ratio, image_width, samples_per_pixel, image_height,
                   pixel_samples_scale, center, pixel00_loc, pixel_delta_u,
                   pixel_delta_v, pc, row, col, out, leftover, hitvars>>

\* the pixel is written with pixel_color declared outside the loops, so that
\* it is kept from one pixel to the next
WritePixel_carrying ==
    /\ pc = "Rendering"
    /\ Followed
    /\ row < image_height
    /\ ~(sample < samples_per_pixel)
    /\ LET color == Vec3_scale(pixel_samples_scale, pixel_color)
       IN  \E bytes \in write_color(color) :
              written' = [valid |-> TRUE, color |-> color, bytes |-> bytes,
                          samples |-> sample, shaded |-> shaded]
    /\ out' = Append(out, PixelLine(row, col))
    /\ row' = LoopAdvance(row, col, image_width)[1]
    /\ col' = LoopAdvance(row, col, image_width)[2]
    /\ sample' = 0
    /\ pixel_color' = pixel_color
    /\ shaded' = <<>>
    /\ UNCHANGED <<aspect_ratio, image_width, samples_per_pixel, image_height,
                   pixel_samples_scale, center, pixel00_loc, pixel_delta_u,
                   pixel_delta_v, pc, leftover, hitvars>>

\* the sample loop is left, the pixel is written and the loops advance
\* (Camera.h:40, 34, 32, 35)
WritePixel ==
    /\ pc = "Rendering"
    /\ Followed
    /\ row < image_height
    /\ ~(sample < samples_per_pixel)
    /\ LET color == Vec3_scale(pixel_samples_scale, pixel_color)
       IN  \E bytes \in write_color(color) :
              written' = [valid |-> TRUE, color |-> color, bytes |-> bytes,
                          samples |-> sample, shaded |-> shaded]
    /\ out' = Append(out, PixelLine(row, col))
    /\ row' = LoopAdvance(row, col, image_width)[1]
    /\ col' = LoopAdvance(row, col, image_width)[2]
    /\ sample' = 0
    /\ pixel_color' = IVec(0, 0, 0)
    /\ shaded' = <<>>
    /\ UNCHANGED <<aspect_ratio, image_width, samples_per_pixel, image_height,
                   pixel_samples_scale, center, pixel00_loc, pixel_delta_u,
                   pixel_delta_v, pc, leftover, hitvars>>

\* the row loop is left and render returns (Camera.h:32, 43-44)
RenderFinish ==
    /\ pc = "Rendering"
    /\ ~(row < image_height)
    /\ pc' = "Done"
    /\ written' = NoWrite
    /\ UNCHANGED <<aspect_ratio, image_width, samples_per_pixel, image_height,
                   pixel_samples_scale, center, pixel00_loc, pixel_delta_u,
                   pixel_delta_v, row, col, sample, pixel_color, out, leftover, shaded, hitvars>>

Init ==
    /\ CameraDefaults
    /\ image_height \in {0, 7}
    /\ pixel_samples_scale \in {Zero, NaN}
    /\ objects = MainWorld
    /\ rec = NoQuery.rec0
    /\ query = NoQuery
    /\ result = NoResult

Next ==
    \/ \E a \in AspectRatios : SetAspectRatio(a)
    \/ \E w \in Widths : SetImageWidth(w)
    \/ \E n \in SampleCounts : SetSamplesPerPixel(n)
    \/ RenderInitialize
    \/ WriteHeader
    \/ \E rx \in Jitter, ry \in Jitter, r0 \in FreshRecords : Sample(rx, ry, r0)
    \/ WritePixel
    \/ RenderFinish

Spec == Init /\ [][Next]_vars

-----------------------------------------------------------------------------
(* Properties of the camera, checked under Spec *)

InRender == pc \in {"Initialized", "Rendering"}
Max(a, b) == IF a < b THEN b ELSE a

\* C4: every byte write_color emits equals trunc(256 * clamp(x, 0, 0.999))
\* and lies in 0..255; -0.1, 0.0, 0.5, 0.999, 1.0 and 5.0 give 0, 0, 128,
\* 255, 255 and 255.
C4_ByteFromClampedChannel ==
    /\ color_byte(Rat(-1, 10)) = {0}
    /\ color_byte(Zero) = {0}
    /\ color_byte(Half) = {128}
    /\ color_byte(Rat(999, 1000)) = {255}
    /\ color_byte(One) = {255}
    /\ color_byte(Num(5)) = {255}
    /\ written.valid =>
          \A ch \in 1..3 :
             LET v == Mul(Num(256), clamp(colorInterval, written.color[ch]))
             IN  /\ written.bytes[ch] \in 0..255
                 /\ IsFin(v) => written.bytes[ch] = Trunc(v)

\* C5: a render call writes the three header lines once, before any pixel,
\* then image_width * image_height pixel lines, the pixel of row j and
\* column i being pixel line j * image_width + i, and is Done with nothing
\* after the last pixel.
C5_HeaderThenScanlines ==
    /\ pc \in {"Unconfigured", "Initialized"} => out = <<>>
    /\ pc \in {"Rendering", "Done"} =>
          /\ Len(out) >= 3
          /\ SubSeq(out, 1, 3) = HeaderLines(out[2].a, out[2].b)
          /\ \A k \in 4..Len(out) :
                out[k] = PixelLine((k - 4) \div out[2].a, (k - 4) % out[2].a)
    /\ pc = "Rendering" =>
          /\ out[2] = [kind |-> "size", a |-> image_width, b |-> image_height]
          /\ Len(out) = 3 + row * image_width + col
          /\ row <= image_height
          /\ col < image_width
    /\ pc = "Done" => Len(out) = 3 + out[2].a * out[2].b

\* a render call of an image of several rows and columns is Done
C5_Witness ==
    /\ pc = "Done"
    /\ out[2].a > 1
    /\ out[2].b > 1
    /\ out[Len(out)] = PixelLine(out[2].b - 1, out[2].a - 1)

\* C6: with samples_per_pixel <= 0 render rejects the configuration or
\* behaves as if it were 1: the averaging factor is 1 and each pixel written
\* has been shaded from exactly one ray.
C6_NonPositiveSamplesTreatedAsOne ==
    samples_per_pixel <= 0 /\ InRender =>
        /\ pixel_samples_scale = One
        /\ written.valid => written.samples = 1

\* C8: render never derives image_height and a viewport from a zero or
\* near-zero aspect_ratio.
NearZero(a) == Lt(Rat(-1, 1000), a) /\ Lt(a, Rat(1, 1000))
C8_NearZeroAspectRejected == InRender => ~NearZero(aspect_ratio)

\* the height the claim gives for width w and aspect ratio a, if an int can
\* hold it
ClaimedHeight(w, a) ==
    LET q == Div(Num(w), a)
    IN  IF IsFin(q) THEN {Max(1, Trunc(q))} ELSE {}

\* C9: after initialize image_height = max(1, trunc(image_width /
\* aspect_ratio)) for every image_width and positive aspect_ratio, so
\* image_height >= 1 while rays are generated or the header is written;
\* width 400 at 16:9 gives 225.
C9_HeightFromWidthAndAspect ==
    /\ \A h0 \in IntCast(Div(Num(400), Rat(16, 9))) :
          initialize(400, 10, h0).image_height = 225
    /\ InRender => image_height >= 1
    /\ InRender /\ Lt(Zero, aspect_ratio) =>
          image_height \in ClaimedHeight(image_width, aspect_ratio)

\* the sum of a sequence of colours, added in order from (0,0,0)
RECURSIVE SumOf(_)
SumOf(cs) ==
    IF cs = <<>> THEN IVec(0, 0, 0)
    ELSE Vec3_add(SumOf(SubSeq(cs, 1, Len(cs) - 1)), cs[Len(cs)])

\* the colours a ray through pixel column i of row j can be shaded
ShadesOf(i, j) ==
    {ray_color(get_ray(i, j, rx, ry), objects, r0) :
        rx \in Jitter, ry \in Jitter, r0 \in FreshRecords}

\* C12: with samples_per_pixel >= 1 the accumulator of every pixel starts at
\* zero and holds the sum of the colours of the rays shaded for that pixel
\* alone; the pixel is written when exactly samples_per_pixel rays have been
\* added, as that sum times 1 / samples_per_pixel; with samples_per_pixel = 1
\* the colour written is the colour of the one ray.
C12_MeanOfSamples ==
    samples_per_pixel >= 1 =>
        /\ pc = "Rendering" =>
              /\ Len(shaded) = sample
              /\ sample <= samples_per_pixel
              /\ pixel_color = SumOf(shaded)
              /\ Followed /\ row < image_height /\ shaded # <<>> =>
                    LET shades == ShadesOf(col, row)
                    IN  \A k \in 1..Len(shaded) : shaded[k] \in shades
        /\ written.valid =>
              /\ written.samples = samples_per_pixel
              /\ Len(written.shaded) = samples_per_pixel
              /\ written.color = Vec3_scale(Div(One, Num(samples_per_pixel)),
                                            SumOf(written.shaded))
              /\ samples_per_pixel = 1 => written.color = written.shaded[1]

\* a pixel after the first of its render call has been written as the mean
\* of two rays of different colours
C12_Witness ==
    /\ written.valid
    /\ samples_per_pixel = 2
    /\ Len(out) > 4
    /\ written.shaded[1] # written.shaded[2]
    /\ written.color # written.shaded[1]

\* C11: in any sequence of setting changes and render calls, initialize has
\* run in each render call before its header is written and before any of
\* its rays is generated: while a call is in progress image_height, the
\* pixel deltas, pixel00_loc and pixel_samples_scale are those initialize
\* derives from the settings of that call, never those an earlier call left,
\* and the header carries that image_height.
C11_DerivedFromSettingsOfTheCall ==
    /\ InRender => Derived \in Derivable
    /\ pc = "Initialized" => out = <<>>
    /\ pc = "Rendering" =>
          out[2] = [kind |-> "size", a |-> image_width, b |-> image_height]

\* a render call that found the fields of an earlier call for other settings
\* has written its header and a pixel
C11_Witness ==
    /\ pc = "Rendering"
    /\ leftover
    /\ Len(out) > 3
    /\ Derived \in Derivable

-----------------------------------------------------------------------------
(* Properties of the scene queries, checked under SpecHit *)

\* what the last query would get from sphere s alone
Alone(s) == Sphere_hit(s, query.ray, query.interval, query.rec0)
\* the members of the scene that the last query's ray hits in its interval
Hitting == {i \in 1..Len(objects) : Alone(objects[i]).hit}
\* a hitting member whose accepted t is the least
Nearest(i) ==
    /\ i \in Hitting
    /\ \A j \in Hitting : Le(Alone(objects[i]).rec.t, Alone(objects[j]).rec.t)

\* the quantities of the sphere quadratic for the last query
Q_oc == Vec3_sub(query.sphere.center, query.ray.origin)
Q_a == length_squared(query.ray.direction)
Q_h == dot(query.ray.direction, Q_oc)
Q_c == Sub(length_squared(Q_oc), Mul(query.sphere.radius, query.sphere.radius))
Q_discriminant == Sub(Mul(Q_h, Q_h), Mul(Q_a, Q_c))
Q_near == Div(Sub(Q_h, Sqrt(Q_discriminant)), Q_a)
Q_far == Div(Add(Q_h, Sqrt(Q_discriminant)), Q_a)
\* the outward normal Sphere::hit hands to set_face_normal on a hit
Q_outward == Vec3_div(Vec3_sub(rec.p, query.sphere.center), query.sphere.radius)
\* the ray starts outside the sphere and points at its centre
Q_aimed_from_outside ==
    /\ Lt(Zero, Q_c)
    /\ \E k \in 1..4 : Vec3_scale(Num(k), query.ray.direction) = Q_oc
\* the ray starts strictly inside the sphere
Q_inside == Lt(Q_c, Zero)

\* C1: HittableList::hit returns a hit exactly when some member sphere's own
\* hit succeeds, the record it returns is that of a member with the least
\* accepted t, and ray_color shades a ray that hits a member from that
\* member's normal rather than as background.
C1_ListReturnsNearestMember ==
    /\ query.kind = "list" =>
          /\ result.hit = (Hitting # {})
          /\ Hitting # {} => \E i \in Hitting : Nearest(i) /\ rec = Alone(objects[i]).rec
    /\ query.kind = "color" /\ Hitting # {} =>
          \E i \in Hitting :
             /\ Nearest(i)
             /\ result.color = Vec3_scale(Half, Vec3_add(Alone(objects[i]).rec.normal,
                                                         IVec(1, 1, 1)))

\* C2: whenever Sphere::hit returns true, min < rec.t < max for the interval
\* queried.
C2_AcceptedRootStrictlyInside ==
    query.kind = "sphere" /\ result.hit =>
        Lt(query.interval.min, rec.t) /\ Lt(rec.t, query.interval.max)

\* a hit was returned although the smaller root lies exactly on the lower bound
C2_Witness ==
    /\ query.kind = "sphere"
    /\ result.hit
    /\ Q_near = query.interval.min
    /\ rec.t = Q_far

\* C3: in every record set_face_normal has produced, front_face is true
\* exactly when dot(direction, outward_normal) < 0, normal is the outward
\* normal when front_face and its negation otherwise, and
\* dot(direction, normal) <= 0.
C3_NormalAgainstRay ==
    query.kind = "sphere" /\ result.hit =>
        /\ rec.front_face = Lt(dot(query.ray.direction, Q_outward), Zero)
        /\ rec.normal = IF rec.front_face THEN Q_outward ELSE Vec3_neg(Q_outward)
        /\ Le(dot(query.ray.direction, rec.normal), Zero)

\* C7: a sphere constructed with a negative radius stores radius 0, and a
\* sphere whose stored radius is 0 is never hit.
C7_ZeroRadiusNeverHit ==
    /\ \A i \in 1..Len(objects) : ~Lt(objects[i].radius, Zero)
    /\ \A c \in Centers : Sphere(c, Num(-1)).radius = Zero
    /\ query.kind = "sphere" /\ query.sphere.radius = Zero => ~result.hit

\* C10: Sphere::hit returns no hit on a negative discriminant; otherwise it
\* accepts the smaller root when that lies strictly inside the interval, else
\* the larger root when that one does, else returns no hit.  Over (0, +inf)
\* a ray from outside aimed at the centre reports the smaller root, and a
\* ray from strictly inside reports the larger root.
C10_RootSelection ==
    query.kind = "sphere" =>
        /\ Lt(Q_discriminant, Zero) => ~result.hit
        /\ ~Lt(Q_discriminant, Zero) =>
              CASE surrounds(query.interval, Q_near) -> result.hit /\ rec.t = Q_near
                [] surrounds(query.interval, Q_far) -> result.hit /\ rec.t = Q_far
                [] OTHER -> ~result.hit
        /\ query.interval = Interval(Zero, infinity) /\ Q_aimed_from_outside =>
              result.hit /\ rec.t = Q_near /\ Lt(Zero, Q_near) /\ Le(Q_near, Q_far)
        /\ query.interval = Interval(Zero, infinity) /\ Q_inside =>
              result.hit /\ rec.t = Q_far /\ ~Lt(Zero, Q_near)

\* a ray from strictly inside a sphere was answered with the larger root
C10_Witness ==
    /\ query.kind = "sphere"
    /\ query.interval = Interval(Zero, infinity)
    /\ Q_inside
    /\ result.hit
    /\ rec.t = Q_far
    /\ Q_far # Q_near

\* C13: when Sphere::hit returns false, on a negative discriminant or with
\* both roots outside the interval, the caller's rec.t, rec.p, rec.normal and
\* rec.front_face are what they were before the call; when it returns true
\* the four fields are those of the accepted root: t is a root inside the
\* interval, p the ray's point at t, front_face whether the ray meets the
\* outward normal at p from outside, and normal that normal turned against
\* the ray.
C13_RecordWrittenOnlyOnHit ==
    query.kind = "sphere" =>
        /\ ~result.hit =>
              /\ rec.t = query.rec0.t
              /\ rec.p = query.rec0.p
              /\ rec.normal = query.rec0.normal
              /\ rec.front_face = query.rec0.front_face
        /\ result.hit =>
              /\ rec.t \in {Q_near, Q_far}
              /\ surrounds(query.interval, rec.t)
              /\ rec.p = Ray_at(query.ray, rec.t)
              /\ rec.front_face = Lt(dot(query.ray.direction, Q_outward), Zero)
              /\ rec.normal = IF rec.front_face THEN Q_outward
                              ELSE Vec3_neg(Q_outward)

\* a ray whose line meets the sphere was answered with no hit, both roots
\* lying outside the interval, and the caller's record kept the values it
\* had
C13_Witness ==
    /\ query.kind = "sphere"
    /\ ~result.hit
    /\ ~Lt(Q_discriminant, Zero)
    /\ Q_near # Q_far
    /\ query.rec0.t = Num(-7)
    /\ query.rec0.front_face
    /\ rec = query.rec0

====
